---- MODULE Spec2Model ----
(***************************************************************************)
(* State-machine model of FanslyGoalManager.py (class GoalManager).        *)
(*                                                                         *)
(* Every button handler runs to completion on the GUI thread, so each      *)
(* handler is one atomic action.  The HTTP service is the environment:     *)
(* `server` is the list of goal records it holds, every request gets an    *)
(* answer chosen from Statuses (an HTTP status) or NoResponse (requests    *)
(* raised a transport exception).  A request answered with anything but    *)
(* 2xx leaves the service untouched.  The list endpoint is modelled as     *)
(* hiding soft-deleted goals (status = 1), goal records carry every field, *)
(* and the service refuses to create a goal once it holds `quota` records. *)
(*                                                                         *)
(* An exception that no try catches leaves the handler at the raising      *)
(* statement (PySide6 prints the traceback and the event loop goes on).    *)
(*                                                                         *)
(* op, reqs, modals and raised describe the handler that ran last: its     *)
(* name, the requests it issued in order (with their answers), the message *)
(* boxes it opened in order, and the exception that left it, if any.       *)
(*                                                                         *)
(* Six specifications share the actions: Spec (a small room, the user      *)
(* types texts that differ from what the goals hold, presets are saved and *)
(* edited), SpecMany (a room with more goals than the registry shows),     *)
(* SpecPresets (the nine preset slots, config files of earlier versions,   *)
(* restarts), SpecSelect (goals whose targets are not whole dollars,       *)
(* clicks on disabled radio buttons), SpecTitle (every handler, the stream *)
(* title included) and SpecAmounts (creations with every staged amount of  *)
(* a range, targets that are not whole dollars).                           *)
(***************************************************************************)
EXTENDS Integers, Sequences, FiniteSets, TLC

VARIABLES
    server,         \* environment: all goal records of the room, in list order
    quota,          \* environment: how many goal records the room may hold
    goals,          \* self.goals
    checked,        \* self.radio_group.checkedId(), -1 when no button is checked
    radio_enabled,  \* self.radio_buttons[i].isEnabled(), i = 1..3
    amount_in,      \* staging buffer: text of self.amount_in
    label_in,       \* staging buffer: text of self.label_in
    desc_in,        \* staging buffer: text of self.desc_in
    PRESETS,        \* self.PRESETS, a dict of dicts
    config,         \* content of the file at CONFIG_PATH
    stream,         \* environment: the streaming channel of the account
    ACCOUNT_ID,     \* self.ACCOUNT_ID
    CHANNEL_ID,     \* self.CHANNEL_ID
    CHANNEL_VERSION,    \* self.CHANNEL_VERSION
    title_in,       \* text of self.title_in
    current_title_lbl,  \* title shown by self.current_title_lbl
    op,             \* last handler
    reqs,           \* requests issued by the last handler
    modals,         \* QMessageBox calls of the last handler
    raised          \* exception that ended the last handler, "none" otherwise

vars == <<server, quota, goals, checked, radio_enabled, amount_in, label_in, desc_in,
          PRESETS, config, stream, ACCOUNT_ID, CHANNEL_ID, CHANNEL_VERSION, title_in,
          current_title_lbl, op, reqs, modals, raised>>

\* the streaming channel on the service and what the program holds of it
titleVars == <<stream, ACCOUNT_ID, CHANNEL_ID, CHANNEL_VERSION, title_in,
               current_title_lbl>>

staging == <<amount_in, label_in, desc_in>>

-----------------------------------------------------------------------------
(* Bounds of the model *)

\* Spec: the room holds at most this many goal records.
MaxEditGoals == 2

\* SpecMany: the room holds at most this many goal records, more than the
\* registry shows.
MaxServerGoals == 4

(* Program constants *)

\* data[:3], range(3): the registry and the radio group have 3 slots
MaxShown == 3
\* amt * 1000, goalAmount // 1000
Milli == 1000

AUTH_TOKEN == "token"
CHAT_ID == "room"
ACCOUNT == "acct"
CHANNEL == "chan"

\* self.ACCOUNT_ID = None, self.CHANNEL_ID = None: the program tests the ids
\* by their truth value only
NoId == ""

\* self.CHANNEL_VERSION = None
NoVersion == -1

\* QButtonGroup(self): a button group is exclusive unless setExclusive(False)
\* is called, and the program never calls it.
Exclusive == TRUE

-----------------------------------------------------------------------------
(* Text: a Python str is a sequence of one-character strings *)

Digits == <<"0", "1", "2", "3", "4", "5", "6", "7", "8", "9">>

IsDigit(c) == \E i \in 1..10 : Digits[i] = c

DigitVal(c) == (CHOOSE i \in 1..10 : Digits[i] = c) - 1

RECURSIVE NatToText(_)
NatToText(n) ==
    IF n < 10 THEN <<Digits[n + 1]>>
    ELSE NatToText(n \div 10) \o <<Digits[(n % 10) + 1]>>

\* str(n) for an int
IntToText(n) == IF n < 0 THEN <<"-">> \o NatToText(-n) ELSE NatToText(n)

RECURSIVE lstrip(_)
lstrip(t) == IF t # <<>> /\ Head(t) = " " THEN lstrip(Tail(t)) ELSE t

RECURSIVE rstrip(_)
rstrip(t) ==
    IF t # <<>> /\ t[Len(t)] = " " THEN rstrip(SubSeq(t, 1, Len(t) - 1)) ELSE t

\* str.strip()
strip(t) == rstrip(lstrip(t))

\* a group or slot argument of the preset handlers: an int or a str
PyInt(n) == [int |-> n]
PyText(t) == [text |-> t]

\* str(x): the decimal text of an int, a str itself
str(x) == IF "int" \in DOMAIN x THEN IntToText(x.int) ELSE x.text

RECURSIVE DigitsToNat(_)
DigitsToNat(t) ==
    IF t = <<>> THEN 0
    ELSE 10 * DigitsToNat(SubSeq(t, 1, Len(t) - 1)) + DigitVal(t[Len(t)])

\* a parser that reads anything that is not a number as 0
ParseIntLenient(text) ==
    LET s == strip(text)
        signed == s # <<>> /\ Head(s) \in {"-", "+"}
        body == IF signed THEN Tail(s) ELSE s
        good == body # <<>> /\ \A i \in 1..Len(body) : IsDigit(body[i])
    IN  IF ~good THEN [ok |-> TRUE, val |-> 0]
        ELSE [ok |-> TRUE,
              val |-> IF signed /\ Head(s) = "-" THEN -DigitsToNat(body)
                      ELSE DigitsToNat(body)]

\* int(text): surrounding blanks are dropped, one sign is allowed, and at
\* least one digit must follow; anything else raises ValueError (ok = FALSE).
ParseInt(text) ==
    LET s == strip(text)
        signed == s # <<>> /\ Head(s) \in {"-", "+"}
        body == IF signed THEN Tail(s) ELSE s
        good == body # <<>> /\ \A i \in 1..Len(body) : IsDigit(body[i])
    IN  IF ~good THEN [ok |-> FALSE, val |-> 0]
        ELSE [ok |-> TRUE,
              val |-> IF signed /\ Head(s) = "-" THEN -DigitsToNat(body)
                      ELSE DigitsToNat(body)]

-----------------------------------------------------------------------------
(* Python list indexing: seq[idx] with idx counted from 0, or from the end   *)
(* when it is negative; IndexError outside -len .. len - 1                   *)

InRange(seq, idx) == idx < Len(seq) /\ idx >= -Len(seq)

PyItem(seq, idx) == IF idx >= 0 THEN seq[idx + 1] ELSE seq[Len(seq) + idx + 1]

-----------------------------------------------------------------------------
(* Python dict: a sequence of [k, v] entries in insertion order *)

DictHas(d, k) == \E i \in 1..Len(d) : d[i].k = k

DictIndex(d, k) == CHOOSE i \in 1..Len(d) : d[i].k = k

\* d.get(k, default)
DictGet(d, k, default) == IF DictHas(d, k) THEN d[DictIndex(d, k)].v ELSE default

\* d[k] = v
DictSet(d, k, v) ==
    IF DictHas(d, k) THEN [d EXCEPT ![DictIndex(d, k)].v = v]
    ELSE Append(d, [k |-> k, v |-> v])

\* the empty dict {}
EmptyDict == <<>>

\* a slot value that is None (JSON null) instead of a payload
None == [py_none |-> TRUE]

\* slot_val is not None and isinstance(slot_val, dict)
IsDict(v) == "py_none" \notin DOMAIN v

-----------------------------------------------------------------------------
(* Config file *)

\* a normalisation that keeps only the first slot of every group
normalize_presets_first_slot(presets_obj) ==
    [i \in 1..Len(presets_obj) |->
        [k |-> presets_obj[i].k,
         v |-> LET kept == SelectSeq(presets_obj[i].v, LAMBDA e : IsDict(e.v))
               IN  IF kept = <<>> THEN <<>> ELSE <<Head(kept)>>]]

\* Ensure group and slot keys are strings, drop groups that are not dicts and
\* slots that are None or not dicts.  Keys read from JSON are strings already,
\* and the model stores a slot either as a payload record or not at all.
normalize_presets(presets_obj) ==
    [i \in 1..Len(presets_obj) |->
        [k |-> presets_obj[i].k,
         v |-> SelectSeq(presets_obj[i].v, LAMBDA e : IsDict(e.v))]]

\* json.dump of {AUTH_TOKEN, CHATROOM_ID, PRESETS} to CONFIG_PATH
save_config(auth, chat_id, presets) ==
    [AUTH_TOKEN |-> auth, CHATROOM_ID |-> chat_id,
     PRESETS |-> normalize_presets(presets)]

-----------------------------------------------------------------------------
(* The HTTP service (environment) *)

\* HTTP status codes the service answers with
Statuses == {200, 500}

\* requests raised instead of returning a response (transport failure)
NoResponse == 0

Answers == Statuses \cup {NoResponse}

\* a slip in the status test: >= instead of ==
Is2xxLoose(st) == st \div 100 >= 2

\* r.status_code // 100 == 2
Is2xx(st) == st \div 100 = 2

\* values of int(time.time() * 1000)
Times == {17}

\* GET /chatroom/goals: the goals of the room that are not soft-deleted
ListResponse(srv) == SelectSeq(srv, LAMBDA g : g.status = 0)

\* POST /chatroom/goals answered 2xx: the service stores a new goal
ServerCreate(srv, pl) ==
    Append(srv, [id |-> Len(srv) + 1, chatRoomId |-> pl.chatRoomId,
                 accountId |-> ACCOUNT, currentAmount |-> 0,
                 goalAmount |-> pl.goalAmount, label |-> pl.label,
                 description |-> pl.description, status |-> 0,
                 type |-> pl.type, version |-> 0, deletedAt |-> 0])

\* POST /chatroom/goal/update answered 2xx: the record with that id is replaced
ServerUpdate(srv, pl) ==
    [i \in 1..Len(srv) |-> IF srv[i].id = pl.id THEN pl ELSE srv[i]]

\* answers the service can give to a create request
CreateAnswers(srv) ==
    IF Len(srv) < quota THEN Answers ELSE Answers \ {200}

\* a goal the room holds before the program starts
SeedGoal(i) ==
    [id |-> i, chatRoomId |-> CHAT_ID, accountId |-> ACCOUNT,
     currentAmount |-> 500, goalAmount |-> 2000, label |-> <<"a">>,
     description |-> <<"p">>, status |-> 0, type |-> 0, version |-> 1,
     deletedAt |-> 0]

\* a goal of the room with a target of amount thousandths of a dollar
SeedGoalOf(i, amount) == [SeedGoal(i) EXCEPT !.goalAmount = amount]

SeedServers(min, max) == {[i \in 1..n |-> SeedGoal(i)] : n \in min..max}

\* what the user types into the three input fields
Forms ==
    { [amount |-> <<"7">>, label |-> <<" ", "n">>, description |-> <<"d", " ">>],
      [amount |-> <<"1", ".", "5">>, label |-> <<"m">>, description |-> <<>>] }

\* SpecMany: the user types what the seed goals hold, or clears the fields
PlainForms ==
    { [amount |-> <<"2">>, label |-> <<"a">>, description |-> <<"p">>],
      [amount |-> <<>>, label |-> <<>>, description |-> <<>>] }

\* the preset buttons the user presses
PresetGroups == {PyInt(1)}
PresetSlots == {PyInt(1)}

-----------------------------------------------------------------------------
(* Requests and message boxes *)

ListReq(st) ==
    [kind |-> "list", payload |-> [chatRoomIds |-> CHAT_ID], status |-> st]

CreateReq(pl, st) == [kind |-> "create", payload |-> pl, status |-> st]

UpdateReq(pl, st) == [kind |-> "update", payload |-> pl, status |-> st]

Modal(level, title, text, code) ==
    [level |-> level, title |-> title, text |-> text, code |-> code]

\* a slice that keeps the last n elements instead of the first n
TakeLast(s, n) == SubSeq(s, IF Len(s) < n THEN 1 ELSE Len(s) - n + 1, Len(s))

\* s[:n]
Take(s, n) == SubSeq(s, 1, IF Len(s) < n THEN Len(s) ELSE n)

-----------------------------------------------------------------------------
(* Radio group *)

\* QAbstractButton.setChecked on button i of the group whose checked id is c.
\* The checked button of an exclusive group cannot be unchecked: the call
\* returns without changing anything.
setChecked(c, i, on) ==
    IF on THEN i
    ELSE IF c = i /\ ~Exclusive THEN -1 ELSE c

\* the else branch of the loop of fetch_goals, for i = from .. 2
RECURSIVE UncheckFrom(_, _)
UncheckFrom(c, from) ==
    IF from >= MaxShown THEN c
    ELSE UncheckFrom(setChecked(c, from, FALSE), from + 1)

-----------------------------------------------------------------------------
(* fetch_goals as a function of the service's state and its answer *)

\* fetch_goals without the [:3] slice
fetch_goals_untruncated(srv, st, c) ==
    LET data == IF Is2xx(st) THEN ListResponse(srv) ELSE <<>>
    IN  [goals |-> data,
         checked |-> UncheckFrom(c, Len(data)),
         enabled |-> [i \in 1..MaxShown |-> i <= Len(data)],
         req |-> ListReq(st),
         modals |-> IF Is2xx(st) THEN <<>>
                    ELSE <<Modal("critical", "Fetch Error", "exception", st)>>]

fetch_goals(srv, st, c) ==
    LET data == IF Is2xx(st) THEN Take(ListResponse(srv), MaxShown) ELSE <<>>
    IN  [goals |-> data,
         checked |-> UncheckFrom(c, Len(data)),
         enabled |-> [i \in 1..MaxShown |-> i <= Len(data)],
         req |-> ListReq(st),
         modals |-> IF Is2xx(st) THEN <<>>
                    ELSE <<Modal("critical", "Fetch Error", "exception", st)>>]

\* an amount line that shows the amounts undivided
amt_text_raw(g) ==
    <<"$", " ">> \o IntToText(g.currentAmount) \o <<" ", "/", " ", "$", " ">>
        \o IntToText(g.goalAmount)

\* amt = f"$ {currentAmount // 1000} / $ {goalAmount // 1000}", the last line of
\* the label fetch_goals shows next to the radio button of goal g
amt_text(g) ==
    <<"$", " ">> \o IntToText(g.currentAmount \div Milli)
        \o <<" ", "/", " ", "$", " ">> \o IntToText(g.goalAmount \div Milli)

\* the amount lines of self.labels: fetch_goals sets the label of every slot
\* that holds a goal and clears the others
labels_amt(registry) ==
    [i \in 1..MaxShown |-> IF i <= Len(registry) THEN amt_text(registry[i]) ELSE <<>>]

\* the selection test left out
NoSelectionNever(idx) == FALSE

\* if idx < 0: "Select a goal first"
NoSelection(idx) == idx < 0

\* a soft delete that sends currentAmount as 0 instead of the cached value
SoftDeletePayloadNoProgress(g, now) ==
    [id |-> g.id, chatRoomId |-> CHAT_ID, accountId |-> g.accountId,
     currentAmount |-> 0, deletedAt |-> now,
     description |-> g.description, goalAmount |-> g.goalAmount,
     label |-> g.label, status |-> 1, type |-> g.type, version |-> g.version]

\* the soft-delete payload built by delete_selected_goal, delete_all_goals
\* and reset_goal
SoftDeletePayload(g, now) ==
    [id |-> g.id, chatRoomId |-> CHAT_ID, accountId |-> g.accountId,
     currentAmount |-> g.currentAmount, deletedAt |-> now,
     description |-> g.description, goalAmount |-> g.goalAmount,
     label |-> g.label, status |-> 1, type |-> g.type, version |-> g.version]

\* a creation payload that sends the amount in dollars
StagedPayloadUnscaled(amt) ==
    [chatRoomId |-> CHAT_ID, type |-> 0, goalAmount |-> amt,
     label |-> strip(label_in), description |-> strip(desc_in)]

\* the creation payload built from the staging buffer by send_goal and
\* save_preset
StagedPayload(amt) ==
    [chatRoomId |-> CHAT_ID, type |-> 0, goalAmount |-> amt * Milli,
     label |-> strip(label_in), description |-> strip(desc_in)]

-----------------------------------------------------------------------------
(* How a handler ends *)

\* the handler returned without touching the service or the registry
Return(name, rq, md, ex) ==
    /\ op' = name
    /\ reqs' = rq
    /\ modals' = md
    /\ raised' = ex
    /\ UNCHANGED <<server, quota, goals, checked, radio_enabled>>
    /\ UNCHANGED titleVars

\* the handler changed the service to srv and returned without a refresh
ReturnServer(name, srv, rq, md, ex) ==
    /\ op' = name
    /\ reqs' = rq
    /\ modals' = md
    /\ raised' = ex
    /\ server' = srv
    /\ UNCHANGED <<quota, goals, checked, radio_enabled>>
    /\ UNCHANGED titleVars

\* the handler ends with self.fetch_goals(), the service being in state srv
Refresh(name, srv, rq, md) ==
    \E st \in Answers :
        LET f == fetch_goals(srv, st, checked)
        IN  /\ op' = name
            /\ reqs' = Append(rq, f.req)
            /\ modals' = md \o f.modals
            /\ raised' = "none"
            /\ server' = srv
            /\ UNCHANGED <<quota, titleVars>>
            /\ goals' = f.goals
            /\ checked' = f.checked
            /\ radio_enabled' = f.enabled

-----------------------------------------------------------------------------
(* Account and streaming channel *)

AccountReq(st) == [kind |-> "account", payload |-> <<>>, status |-> st]

ChannelReq(st) == [kind |-> "channel", payload |-> <<>>, status |-> st]

TitleReq(pl, st) == [kind |-> "title", payload |-> pl, status |-> st]

\* the channel of the account before the program starts
SeedStream == [id |-> CHANNEL, version |-> 1, title |-> <<"t">>]

\* what the program holds of the channel right after the fields are created
NoChannel ==
    [ACCOUNT_ID |-> NoId, CHANNEL_ID |-> NoId, CHANNEL_VERSION |-> NoVersion,
     title_in |-> <<>>, current_title_lbl |-> <<>>]

\* answers to GET account/me and to GET streaming/channel/{ACCOUNT_ID}; the
\* second is not sent when the first fails
AccountAnswers == {a \in Answers \X Answers : ~Is2xx(a[1]) => a[2] = 200}

\* both requests of load_account_status succeed
AccountOk == {<<200, 200>>}

\* load_account_status: cur is what the program holds, strm the channel on the
\* service, a the answers.  raise_for_status turns every failure into an
\* exception, and the except clause prints a warning and sets the welcome
\* label; the avatar download is left out.
load_account_status(cur, strm, a) ==
    IF ~Is2xx(a[1])
    THEN [fields |-> cur, reqs |-> <<AccountReq(a[1])>>]
    ELSE IF ~Is2xx(a[2])
    THEN [fields |-> [cur EXCEPT !.ACCOUNT_ID = ACCOUNT],
          reqs |-> <<AccountReq(a[1]), ChannelReq(a[2])>>]
    ELSE [fields |->
            [ACCOUNT_ID |-> ACCOUNT, CHANNEL_ID |-> strm.id,
             CHANNEL_VERSION |-> strm.version,
             title_in |-> IF strm.title # <<>> THEN strm.title ELSE cur.title_in,
             current_title_lbl |-> strm.title],
          reqs |-> <<AccountReq(a[1]), ChannelReq(a[2])>>]

\* refresh_current_title: a failure is printed as a warning, nothing else
refresh_current_title(cur, strm, st) ==
    IF cur.ACCOUNT_ID = NoId THEN [fields |-> cur, reqs |-> <<>>]
    ELSE IF ~Is2xx(st) THEN [fields |-> cur, reqs |-> <<ChannelReq(st)>>]
    ELSE [fields |->
            [ACCOUNT_ID |-> cur.ACCOUNT_ID, CHANNEL_ID |-> strm.id,
             CHANNEL_VERSION |-> strm.version,
             title_in |-> IF strm.title # <<>> /\ strip(cur.title_in) = <<>>
                          THEN strm.title ELSE cur.title_in,
             current_title_lbl |-> IF strm.title # <<>> THEN strm.title
                                   ELSE cur.current_title_lbl],
          reqs |-> <<ChannelReq(st)>>]

-----------------------------------------------------------------------------
(* Initial state: GoalManager.__init__ has run, including its fetch_goals() *)
(* and its load_account_status()                                            *)

\* the room is one of servers and never holds more than max goals; the
\* requests of load_account_status are answered by one of acct
InitFrom(servers, max, loaded_presets, acct) ==
    /\ server \in servers
    /\ quota = max
    /\ stream = SeedStream
    /\ \E st \in Answers, a \in acct :
        LET f == fetch_goals(server, st, -1)
            l == load_account_status(NoChannel, SeedStream, a)
        IN  /\ goals = f.goals
            /\ checked = f.checked
            /\ radio_enabled = f.enabled
            /\ reqs = <<f.req>> \o l.reqs
            /\ modals = f.modals
            /\ ACCOUNT_ID = l.fields.ACCOUNT_ID
            /\ CHANNEL_ID = l.fields.CHANNEL_ID
            /\ CHANNEL_VERSION = l.fields.CHANNEL_VERSION
            /\ title_in = l.fields.title_in
            /\ current_title_lbl = l.fields.current_title_lbl
    /\ amount_in = <<>>
    /\ label_in = <<>>
    /\ desc_in = <<>>
    /\ PRESETS = normalize_presets(loaded_presets)
    /\ config = [AUTH_TOKEN |-> AUTH_TOKEN, CHATROOM_ID |-> CHAT_ID,
                 PRESETS |-> loaded_presets]
    /\ op = "init"
    /\ raised = "none"

InitWith(min, max, loaded_presets) ==
    InitFrom(SeedServers(min, max), max, loaded_presets, AccountOk)

\* the window is closed, sys.exit(app.exec()) ends the process without writing
\* anything, and the program is started again: load_config and __init__ run,
\* the account requests being answered 200
restart ==
    /\ \E st \in Answers, a \in AccountOk :
        LET f == fetch_goals(server, st, -1)
            l == load_account_status(NoChannel, stream, a)
        IN  /\ goals' = f.goals
            /\ checked' = f.checked
            /\ radio_enabled' = f.enabled
            /\ reqs' = <<f.req>> \o l.reqs
            /\ modals' = f.modals
            /\ ACCOUNT_ID' = l.fields.ACCOUNT_ID
            /\ CHANNEL_ID' = l.fields.CHANNEL_ID
            /\ CHANNEL_VERSION' = l.fields.CHANNEL_VERSION
            /\ title_in' = l.fields.title_in
            /\ current_title_lbl' = l.fields.current_title_lbl
    /\ amount_in' = <<>>
    /\ label_in' = <<>>
    /\ desc_in' = <<>>
    /\ PRESETS' = normalize_presets(config.PRESETS)
    /\ op' = "init"
    /\ raised' = "none"
    /\ UNCHANGED <<server, quota, config, stream>>

-----------------------------------------------------------------------------
(* User input *)

\* the user replaces the content of the three input fields
user_types(form) ==
    /\ amount_in' = form.amount
    /\ label_in' = form.label
    /\ desc_in' = form.description
    /\ UNCHANGED <<PRESETS, config>>
    /\ Return("type", <<>>, <<>>, "none")

\* a load that rounds the amount to the nearest dollar
load_selected_rounded(idx) ==
    IF idx < 0 \/ idx >= Len(goals) THEN UNCHANGED staging
    ELSE LET g == goals[idx + 1]
         IN  /\ amount_in' = IntToText((g.goalAmount + 500) \div Milli)
             /\ label_in' = g.label
             /\ desc_in' = g.description

\* load_selected, the slot of every radio button's toggled signal
load_selected(idx) ==
    IF idx < 0 \/ idx >= Len(goals) THEN UNCHANGED staging
    ELSE LET g == goals[idx + 1]
         IN  /\ amount_in' = IntToText(g.goalAmount \div Milli)
             /\ label_in' = g.label
             /\ desc_in' = g.description

\* a radio group whose buttons are never disabled
click_radio_any(i) ==
    /\ checked # i
    /\ checked' = setChecked(checked, i, TRUE)
    /\ load_selected(i)
    /\ op' = "select"
    /\ reqs' = <<>>
    /\ modals' = <<>>
    /\ raised' = "none"
    /\ UNCHANGED <<server, quota, goals, radio_enabled, PRESETS, config, titleVars>>

\* the user clicks radio button i: an enabled button that is not checked
\* becomes the checked one and toggled fires
click_radio(i) ==
    /\ radio_enabled[i + 1]
    /\ checked # i
    /\ checked' = setChecked(checked, i, TRUE)
    /\ load_selected(i)
    /\ op' = "select"
    /\ reqs' = <<>>
    /\ modals' = <<>>
    /\ raised' = "none"
    /\ UNCHANGED <<server, quota, goals, radio_enabled, PRESETS, config, titleVars>>

\* the user clicks radio button i while it is disabled: setEnabled(False) was
\* the last call on it, Qt delivers no click and no toggled signal
click_disabled_radio(i) ==
    /\ ~radio_enabled[i + 1]
    /\ op' = "clickDisabled"
    /\ reqs' = <<>>
    /\ modals' = <<>>
    /\ raised' = "none"
    /\ UNCHANGED <<server, quota, goals, checked, radio_enabled, staging, PRESETS,
                   config, titleVars>>

-----------------------------------------------------------------------------
(* Handlers of the left panel *)

\* a fetch that also clears the three input fields
fetch_clearing ==
    /\ Refresh("fetch", server, <<>>, <<>>)
    /\ amount_in' = <<>>
    /\ label_in' = <<>>
    /\ desc_in' = <<>>
    /\ UNCHANGED <<PRESETS, config>>

\* "Fetch Goals" button
fetch ==
    /\ Refresh("fetch", server, <<>>, <<>>)
    /\ UNCHANGED <<staging, PRESETS, config>>

\* "Send Goal" button
send_goal ==
    /\ UNCHANGED <<staging, PRESETS, config>>
    /\ LET p == ParseInt(amount_in)
           pl == StagedPayload(p.val)
       IN  IF ~p.ok
           THEN Return("create", <<>>,
                       <<Modal("warning", "Input Error", "Enter whole dollars", 0)>>,
                       "none")
           ELSE \E st \in CreateAnswers(server) :
                   IF st = NoResponse
                   THEN Return("create", <<CreateReq(pl, st)>>, <<>>, "ConnectionError")
                   ELSE IF Is2xx(st)
                   THEN Refresh("create", ServerCreate(server, pl),
                                <<CreateReq(pl, st)>>, <<>>)
                   ELSE Return("create", <<CreateReq(pl, st)>>,
                               <<Modal("critical", "Error", "", st)>>, "none")

\* "Delete Selected Goal" button
delete_selected_goal ==
    /\ UNCHANGED <<staging, PRESETS, config>>
    /\ IF NoSelection(checked)
       THEN Return("deleteSelected", <<>>,
                   <<Modal("warning", "No selection", "Select a goal first", 0)>>,
                   "none")
       ELSE IF ~InRange(goals, checked)
       THEN Return("deleteSelected", <<>>, <<>>, "IndexError")
       ELSE \E now \in Times, st \in Answers :
               LET pl == SoftDeletePayload(PyItem(goals, checked), now)
               IN  IF st = NoResponse
                   THEN Return("deleteSelected", <<UpdateReq(pl, st)>>, <<>>,
                               "ConnectionError")
                   ELSE IF Is2xx(st)
                   THEN Refresh("deleteSelected", ServerUpdate(server, pl),
                                <<UpdateReq(pl, st)>>, <<>>)
                   ELSE Return("deleteSelected", <<UpdateReq(pl, st)>>,
                               <<Modal("critical", "Error", "Delete failed: ", st)>>,
                               "none")

\* an update payload that sends currentAmount as 0 instead of the cached value
UpdatePayloadZeroProgress(g, amt) ==
    [id |-> g.id, chatRoomId |-> CHAT_ID, accountId |-> g.accountId,
     currentAmount |-> 0, deletedAt |-> g.deletedAt,
     description |-> strip(desc_in), goalAmount |-> amt * Milli,
     label |-> strip(label_in), status |-> g.status, type |-> g.type,
     version |-> g.version]

\* the full-record payload built by update_goal for the cached goal g
UpdatePayload(g, amt) ==
    [id |-> g.id, chatRoomId |-> CHAT_ID, accountId |-> g.accountId,
     currentAmount |-> g.currentAmount, deletedAt |-> g.deletedAt,
     description |-> strip(desc_in), goalAmount |-> amt * Milli,
     label |-> strip(label_in), status |-> g.status, type |-> g.type,
     version |-> g.version]

\* "Update Selected Goal" button
update_goal ==
    /\ UNCHANGED <<staging, PRESETS, config>>
    /\ IF NoSelection(checked)
       THEN Return("update", <<>>,
                   <<Modal("warning", "No selection", "Select a goal first", 0)>>,
                   "none")
       ELSE IF ~InRange(goals, checked)
       THEN Return("update", <<>>, <<>>, "IndexError")
       ELSE LET p == ParseInt(amount_in)
                pl == UpdatePayload(PyItem(goals, checked), p.val)
            IN  IF ~p.ok
                THEN Return("update", <<>>,
                            <<Modal("warning", "Input Error", "Enter whole dollars", 0)>>,
                            "none")
                ELSE \E st \in Answers :
                        IF st = NoResponse
                        THEN Return("update", <<UpdateReq(pl, st)>>, <<>>,
                                    "ConnectionError")
                        ELSE IF Is2xx(st)
                        THEN Refresh("update", ServerUpdate(server, pl),
                                     <<UpdateReq(pl, st)>>, <<>>)
                        ELSE Return("update", <<UpdateReq(pl, st)>>,
                                    <<Modal("critical", "Error", "", st)>>, "none")

\* the loop of delete_all_goals from item i on: ans[i] is the answer to the
\* request for items[i]; a transport exception leaves the loop and the handler
RECURSIVE DeleteLoop(_, _, _, _, _, _)
DeleteLoop(srv, items, ans, now, i, rq) ==
    IF i > Len(items) THEN [server |-> srv, reqs |-> rq, raised |-> "none"]
    ELSE LET pl == SoftDeletePayload(items[i], now)
             sent == Append(rq, UpdateReq(pl, ans[i]))
         IN  IF ans[i] = NoResponse
             THEN [server |-> srv, reqs |-> sent, raised |-> "ConnectionError"]
             ELSE DeleteLoop(IF Is2xx(ans[i]) THEN ServerUpdate(srv, pl) ELSE srv,
                             items, ans, now, i + 1, sent)

\* a delete-all that refreshes after its list request failed
delete_all_goals_refreshing ==
    /\ UNCHANGED <<staging, PRESETS, config>>
    /\ \E st \in Answers :
        IF ~Is2xx(st)
        THEN Refresh("deleteAll", server, <<ListReq(st)>>,
                     <<Modal("critical", "Error", "exception", st)>>)
        ELSE LET items == ListResponse(server)
             IN  \E now \in Times, ans \in [1..Len(items) -> Answers] :
                    LET r == DeleteLoop(server, items, ans, now, 1, <<ListReq(st)>>)
                    IN  IF r.raised # "none"
                        THEN ReturnServer("deleteAll", r.server, r.reqs, <<>>, r.raised)
                        ELSE Refresh("deleteAll", r.server, r.reqs, <<>>)

\* "Delete All Goals" button
delete_all_goals ==
    /\ UNCHANGED <<staging, PRESETS, config>>
    /\ \E st \in Answers :
        IF ~Is2xx(st)
        THEN Return("deleteAll", <<ListReq(st)>>,
                    <<Modal("critical", "Error", "exception", st)>>, "none")
        ELSE LET items == ListResponse(server)
             IN  \E now \in Times, ans \in [1..Len(items) -> Answers] :
                    LET r == DeleteLoop(server, items, ans, now, 1, <<ListReq(st)>>)
                    IN  IF r.raised # "none"
                        THEN ReturnServer("deleteAll", r.server, r.reqs, <<>>, r.raised)
                        ELSE Refresh("deleteAll", r.server, r.reqs, <<>>)

\* a recreate payload taken from the input fields instead of the cached goal
RecreatePayloadStaged(g) ==
    [chatRoomId |-> CHAT_ID, type |-> 0, goalAmount |-> g.goalAmount,
     label |-> strip(label_in), description |-> strip(desc_in)]

\* the creation payload built by reset_goal for the cached goal g
RecreatePayload(g) ==
    [chatRoomId |-> CHAT_ID, type |-> 0, goalAmount |-> g.goalAmount,
     label |-> g.label, description |-> g.description]

\* "Reset Selected Goal" button
reset_goal ==
    /\ UNCHANGED <<staging, PRESETS, config>>
    /\ IF NoSelection(checked)
       THEN Return("reset", <<>>,
                   <<Modal("warning", "No selection", "Select a goal first", 0)>>,
                   "none")
       ELSE IF ~InRange(goals, checked)
       THEN Return("reset", <<>>, <<>>, "IndexError")
       ELSE \E now \in Times, st1 \in Answers :
               LET g == PyItem(goals, checked)
                   pl_del == SoftDeletePayload(g, now)
                   pl_new == RecreatePayload(g)
                   r1 == UpdateReq(pl_del, st1)
                   srv1 == ServerUpdate(server, pl_del)
               IN  IF st1 = NoResponse
                   THEN Return("reset", <<r1>>, <<>>, "ConnectionError")
                   ELSE IF ~Is2xx(st1)
                   THEN Return("reset", <<r1>>,
                               <<Modal("critical", "Error", "Reset delete failed: ", st1)>>,
                               "none")
                   ELSE \E st2 \in CreateAnswers(srv1) :
                           LET r2 == CreateReq(pl_new, st2)
                           IN  IF st2 = NoResponse
                               THEN ReturnServer("reset", srv1, <<r1, r2>>, <<>>,
                                                 "ConnectionError")
                               ELSE IF Is2xx(st2)
                               THEN Refresh("reset", ServerCreate(srv1, pl_new),
                                            <<r1, r2>>, <<>>)
                               ELSE ReturnServer("reset", srv1, <<r1, r2>>,
                                        <<Modal("critical", "Error",
                                                "Reset create failed: ", st2)>>,
                                        "none")

-----------------------------------------------------------------------------
(* Handlers of the preset panel *)

\* "Save <slot>" button of the tab of group
save_preset(group, slot) ==
    LET p == ParseInt(amount_in)
        gk == str(group)
        sk == str(slot)
        saved == DictSet(PRESETS, gk,
                         DictSet(DictGet(PRESETS, gk, EmptyDict), sk,
                                 StagedPayload(p.val)))
    IN  /\ UNCHANGED staging
        /\ IF ~p.ok
           THEN /\ UNCHANGED <<PRESETS, config>>
                /\ Return("save", <<>>,
                          <<Modal("warning", "Input Error", "Enter whole dollars", 0)>>,
                          "none")
           ELSE /\ PRESETS' = saved
                /\ config' = save_config(AUTH_TOKEN, CHAT_ID, saved)
                /\ Return("save", <<>>,
                          <<Modal("information", "Saved", <<gk, sk>>, 0)>>, "none")

\* presets.get(gk, {}).get(sk): the payload of a slot, None when it has none
get_preset(presets, group, slot) ==
    DictGet(DictGet(presets, str(group), EmptyDict), str(slot), None)

\* what edit_preset writes into the three input fields for payload pl
preset_texts(pl) ==
    [amount |-> IntToText(pl.goalAmount \div Milli), label |-> pl.label,
     description |-> pl.description]

\* an edit that looks the group up with setdefault instead of get
edit_preset_setdefault(group, slot) ==
    LET gk == str(group)
        sk == str(slot)
        pl == get_preset(PRESETS, group, slot)
    IN  /\ PRESETS' = IF DictHas(PRESETS, gk) THEN PRESETS
                      ELSE DictSet(PRESETS, gk, EmptyDict)
        /\ UNCHANGED config
        /\ IF ~IsDict(pl)
           THEN /\ UNCHANGED staging
                /\ Return("edit", <<>>,
                          <<Modal("warning", "Missing", <<gk, sk>>, 0)>>, "none")
           ELSE /\ amount_in' = preset_texts(pl).amount
                /\ label_in' = preset_texts(pl).label
                /\ desc_in' = preset_texts(pl).description
                /\ Return("edit", <<>>, <<>>, "none")

\* "Edit <slot>" button of the tab of group
edit_preset(group, slot) ==
    LET gk == str(group)
        sk == str(slot)
        pl == get_preset(PRESETS, group, slot)
    IN  /\ UNCHANGED <<PRESETS, config>>
        /\ IF ~IsDict(pl)
           THEN /\ UNCHANGED staging
                /\ Return("edit", <<>>,
                          <<Modal("warning", "Missing", <<gk, sk>>, 0)>>, "none")
           ELSE /\ amount_in' = preset_texts(pl).amount
                /\ label_in' = preset_texts(pl).label
                /\ desc_in' = preset_texts(pl).description
                /\ Return("edit", <<>>, <<>>, "none")

\* the loop of send_presets from entry i on: ans[i] is the answer to the
\* request for presets[i]; a transport exception leaves the loop and the
\* handler.  possible is FALSE when ans holds an answer the service cannot give.
RECURSIVE SendLoop(_, _, _, _, _, _)
SendLoop(srv, presets, ans, i, rq, failed) ==
    IF i > Len(presets)
    THEN [server |-> srv, reqs |-> rq, failed |-> failed, raised |-> "none",
          possible |-> TRUE]
    ELSE LET sent == Append(rq, CreateReq(presets[i].v, ans[i]))
         IN  IF ans[i] \notin CreateAnswers(srv)
             THEN [server |-> srv, reqs |-> rq, failed |-> failed,
                   raised |-> "none", possible |-> FALSE]
             ELSE IF ans[i] = NoResponse
             THEN [server |-> srv, reqs |-> sent, failed |-> failed,
                   raised |-> "ConnectionError", possible |-> TRUE]
             ELSE IF Is2xx(ans[i])
             THEN SendLoop(ServerCreate(srv, presets[i].v), presets, ans, i + 1,
                           sent, failed)
             ELSE SendLoop(srv, presets, ans, i + 1, sent,
                           Append(failed, <<presets[i].k, ans[i]>>))

\* "Send Presets" button of the tab of group
send_presets(group) ==
    LET gk == str(group)
        presets == DictGet(PRESETS, gk, EmptyDict)
    IN  /\ UNCHANGED <<staging, PRESETS, config>>
        /\ IF presets = EmptyDict
           THEN Return("sendGroup", <<>>,
                       <<Modal("warning", "Missing", <<gk>>, 0)>>, "none")
           ELSE \E ans \in [1..Len(presets) -> Answers] :
                   LET r == SendLoop(server, presets, ans, 1, <<>>, <<>>)
                       md == IF r.failed = <<>> THEN <<>>
                             ELSE <<Modal("warning", "Some Failed", r.failed, 0)>>
                   IN  /\ r.possible
                       /\ IF r.raised # "none"
                          THEN ReturnServer("sendGroup", r.server, r.reqs, <<>>,
                                            r.raised)
                          ELSE Refresh("sendGroup", r.server, r.reqs, md)

-----------------------------------------------------------------------------
(* Stream title *)

\* the user replaces the content of the title field
user_types_title(t) ==
    /\ title_in' = t
    /\ op' = "typeTitle"
    /\ reqs' = <<>>
    /\ modals' = <<>>
    /\ raised' = "none"
    /\ UNCHANGED <<server, quota, goals, checked, radio_enabled, staging, PRESETS,
                   config, stream, ACCOUNT_ID, CHANNEL_ID, CHANNEL_VERSION,
                   current_title_lbl>>

\* a second attempt that repeats the minimal payload
TitleAttemptsSame(cur, new_title) ==
    << [id |-> cur.CHANNEL_ID, streamTitle |-> new_title],
       [id |-> cur.CHANNEL_ID, streamTitle |-> new_title] >>

\* attempts of update_stream_title: the minimal payload, then the rich one
TitleAttempts(cur, new_title) ==
    << [id |-> cur.CHANNEL_ID, streamTitle |-> new_title],
       IF cur.CHANNEL_VERSION # NoVersion
       THEN [id |-> cur.CHANNEL_ID, chatRoomId |-> CHAT_ID,
             accountId |-> cur.ACCOUNT_ID, streamTitle |-> new_title,
             version |-> cur.CHANNEL_VERSION]
       ELSE [id |-> cur.CHANNEL_ID, chatRoomId |-> CHAT_ID,
             accountId |-> cur.ACCOUNT_ID, streamTitle |-> new_title] >>

\* a loop that sends every attempt from i on, whatever the answers are
TitleLoopNoStop(attempts, t, i, rq, last_status) ==
    LET rest == [j \in 1..(Len(attempts) - i + 1) |->
                    TitleReq(attempts[j + i - 1], t[j + i - 1])]
        answered == {j \in i..Len(attempts) : t[j] # NoResponse}
    IN  [updated |-> \E j \in i..Len(attempts) : Is2xx(t[j]),
         reqs |-> rq \o rest,
         last_status |-> IF answered = {} THEN last_status
                         ELSE t[CHOOSE j \in answered : \A k \in answered : k <= j],
         possible |-> TRUE]

\* the loop of update_stream_title from attempt i on: t[i] is the answer to
\* attempt i, an exception is caught and the loop goes on; last_status is 0
\* while no attempt was answered.  possible is FALSE when t holds an answer
\* to a request that is never sent.
RECURSIVE TitleLoop(_, _, _, _, _)
TitleLoop(attempts, t, i, rq, last_status) ==
    IF i > Len(attempts)
    THEN [updated |-> FALSE, reqs |-> rq, last_status |-> last_status,
          possible |-> TRUE]
    ELSE LET sent == Append(rq, TitleReq(attempts[i], t[i]))
         IN  IF t[i] = NoResponse
             THEN TitleLoop(attempts, t, i + 1, sent, last_status)
             ELSE IF Is2xx(t[i])
             THEN [updated |-> TRUE, reqs |-> sent, last_status |-> t[i],
                   possible |-> \A j \in (i + 1)..Len(attempts) : t[j] = 200]
             ELSE TitleLoop(attempts, t, i + 1, sent, t[i])

\* "Update Title" button
update_stream_title ==
    LET new_title == strip(title_in)
        cur == [ACCOUNT_ID |-> ACCOUNT_ID, CHANNEL_ID |-> CHANNEL_ID,
                CHANNEL_VERSION |-> CHANNEL_VERSION, title_in |-> title_in,
                current_title_lbl |-> current_title_lbl]
        need == CHANNEL_ID = NoId \/ ACCOUNT_ID = NoId
    IN  /\ op' = "updateTitle"
        /\ raised' = "none"
        /\ UNCHANGED <<server, quota, goals, checked, radio_enabled, staging,
                       PRESETS, config>>
        /\ IF new_title = <<>>
           THEN /\ reqs' = <<>>
                /\ modals' = <<Modal("warning", "Missing Title",
                                     "Please enter a stream title.", 0)>>
                /\ UNCHANGED titleVars
           ELSE \E a \in AccountAnswers, t \in [1..2 -> Answers], sr \in Answers :
                   LET l == IF need THEN load_account_status(cur, stream, a)
                            ELSE [fields |-> cur, reqs |-> <<>>]
                       r == TitleLoop(TitleAttempts(l.fields, new_title), t, 1,
                                      l.reqs, 0)
                       strm == IF r.updated THEN [stream EXCEPT !.title = new_title]
                               ELSE stream
                       f == IF r.updated
                            THEN refresh_current_title(l.fields, strm, sr)
                            ELSE [fields |-> l.fields, reqs |-> <<>>]
                       missing == l.fields.CHANNEL_ID = NoId
                   IN  /\ ~need => a = <<200, 200>>
                       /\ missing => (t = [i \in 1..2 |-> 200] /\ sr = 200)
                       /\ ~missing => r.possible
                       /\ (~missing /\ ~r.updated) => sr = 200
                       /\ stream' = IF missing THEN stream ELSE strm
                       /\ ACCOUNT_ID' = f.fields.ACCOUNT_ID
                       /\ CHANNEL_ID' = f.fields.CHANNEL_ID
                       /\ CHANNEL_VERSION' = f.fields.CHANNEL_VERSION
                       /\ title_in' = f.fields.title_in
                       /\ current_title_lbl' = f.fields.current_title_lbl
                       /\ reqs' = IF missing THEN l.reqs ELSE r.reqs \o f.reqs
                       /\ modals' =
                             IF missing
                             THEN <<Modal("critical", "Channel Missing",
                                          "Could not determine your channel ID.", 0)>>
                             ELSE IF r.updated
                             THEN <<Modal("information", "Updated",
                                          "Stream title updated successfully.", 0)>>
                             ELSE <<Modal("critical", "Update Failed", "HTTP",
                                          r.last_status)>>

\* the buttons of the left panel and the radio buttons
GoalHandlers ==
    \/ \E i \in 0..(MaxShown - 1) : click_radio(i)
    \/ fetch
    \/ send_goal
    \/ delete_selected_goal
    \/ update_goal
    \/ delete_all_goals
    \/ reset_goal

-----------------------------------------------------------------------------
(* Spec: a room of at most MaxEditGoals goals, no preset in the config file, *)
(* the user types Forms                                                     *)

Init == InitWith(0, MaxEditGoals, EmptyDict)

Next ==
    \/ \E form \in Forms : user_types(form)
    \/ GoalHandlers
    \/ \E g \in PresetGroups, s \in PresetSlots : save_preset(g, s)
    \/ \E g \in PresetGroups, s \in PresetSlots : edit_preset(g, s)
    \/ \E g \in PresetGroups : send_presets(g)

Spec == Init /\ [][Next]_vars

(* SpecMany: a room that starts with MaxShown to MaxServerGoals goals, as   *)
(* many as the registry shows or more; the config file holds one preset,    *)
(* the user types PlainForms                                                *)

\* PRESETS of a config file written by an earlier run
StoredPresets ==
    <<[k |-> <<"1">>,
       v |-> <<[k |-> <<"1">>,
                v |-> [chatRoomId |-> CHAT_ID, type |-> 0, goalAmount |-> 2000,
                       label |-> <<"a">>, description |-> <<"p">>]]>>]>>

InitMany == InitWith(MaxShown, MaxServerGoals, StoredPresets)

NextMany ==
    \/ \E form \in PlainForms : user_types(form)
    \/ GoalHandlers
    \/ \E g \in PresetGroups : send_presets(g)

SpecMany == InitMany /\ [][NextMany]_vars

(* SpecPresets: the nine preset slots, addressed by ints or strs; the config  *)
(* file is empty or was left by an earlier version with a null slot; the     *)
(* window may be closed and the program started again                        *)

\* SpecPresets: the preset table holds at most this many payloads.
MaxStored == 2

\* SpecPresets: the room holds at most this many goal records.
MaxPresetGoals == 1

\* PRESETS of a config file that holds a null slot
LegacyPresets ==
    <<[k |-> <<"2">>,
       v |-> <<[k |-> <<"1">>, v |-> None],
               [k |-> <<"3">>,
                v |-> [chatRoomId |-> CHAT_ID, type |-> 0, goalAmount |-> 2000,
                       label |-> <<"a">>, description |-> <<"p">>]]>>]>>

\* groups = (1, 2, 3), slots 1..3, each given as an int or as a str
PresetKeys ==
    {PyInt(n) : n \in 1..MaxShown} \cup {PyText(IntToText(n)) : n \in 1..MaxShown}

\* a group and a slot, both given as ints or both as strs
PresetArgs ==
    {<<PyInt(g), PyInt(n)>> : g, n \in 1..MaxShown}
        \cup {<<PyText(IntToText(g)), PyText(IntToText(n))>> : g, n \in 1..MaxShown}

\* the user types one preset with blanks around its texts
PresetForms ==
    { [amount |-> <<"7">>, label |-> <<" ", "n">>, description |-> <<"d", " ">>] }

RECURSIVE CountSlots(_)
\* number of payloads in a preset table
CountSlots(presets) ==
    IF presets = <<>> THEN 0 ELSE Len(Head(presets).v) + CountSlots(Tail(presets))

InitPresets ==
    \E loaded \in {EmptyDict, LegacyPresets} : InitWith(0, MaxPresetGoals, loaded)

NextPresets ==
    \/ \E form \in PresetForms : user_types(form)
    \/ \E a \in PresetArgs :
          /\ IsDict(get_preset(PRESETS, a[1], a[2])) \/ CountSlots(PRESETS) < MaxStored
          /\ save_preset(a[1], a[2])
    \/ \E a \in PresetArgs : edit_preset(a[1], a[2])
    \/ \E g \in PresetKeys : send_presets(g)
    \/ restart

SpecPresets == InitPresets /\ [][NextPresets]_vars

(* SpecSelect: a room of at most MaxSelectGoals goals whose targets are not  *)
(* whole dollars; the user clicks radio buttons, enabled or not              *)

\* SpecSelect: the room holds at most this many goal records.
MaxSelectGoals == 2

\* goalAmount values of the seed goals
SeedAmounts == {999, 12500}

SelectServers ==
    UNION {{[i \in 1..n |-> SeedGoalOf(i, f[i])] : f \in [1..n -> SeedAmounts]} :
           n \in 0..MaxSelectGoals}

InitSelect == InitFrom(SelectServers, MaxSelectGoals, EmptyDict, AccountOk)

NextSelect ==
    \/ \E form \in PlainForms : user_types(form)
    \/ \E i \in 0..(MaxShown - 1) : click_radio(i)
    \/ \E i \in 0..(MaxShown - 1) : click_disabled_radio(i)
    \/ fetch
    \/ send_goal
    \/ delete_selected_goal

SpecSelect == InitSelect /\ [][NextSelect]_vars

(* SpecTitle: every handler, the stream title included; a room of at most   *)
(* MaxTitleGoals goals, two stored presets in one group, the account         *)
(* requests of the start answered in any way                                 *)

\* SpecTitle: the room holds at most this many goal records, and one fewer
\* at the start.
MaxTitleGoals == 2

\* PRESETS of a config file with two slots in one group
StoredPair ==
    <<[k |-> <<"1">>,
       v |-> <<[k |-> <<"1">>,
                v |-> [chatRoomId |-> CHAT_ID, type |-> 0, goalAmount |-> 2000,
                       label |-> <<"a">>, description |-> <<"p">>]],
               [k |-> <<"2">>,
                v |-> [chatRoomId |-> CHAT_ID, type |-> 0, goalAmount |-> 2000,
                       label |-> <<"a">>, description |-> <<"p">>]]>>]>>

\* what the user types into the title field
TitleTexts == {<<>>, <<" ", "s">>}

InitTitle ==
    InitFrom(SeedServers(MaxTitleGoals - 1, MaxTitleGoals - 1), MaxTitleGoals,
             StoredPair, AccountAnswers)

NextTitle ==
    \/ \E t \in TitleTexts : user_types_title(t)
    \/ update_stream_title
    \/ GoalHandlers
    \/ \E g \in PresetGroups : send_presets(g)

SpecTitle == InitTitle /\ [][NextTitle]_vars

(* SpecAmounts: the room of SpecSelect; the user stages every whole dollar   *)
(* amount from 0 to MaxAmount, creates goals and selects them                *)

\* SpecAmounts: the largest dollar amount the user stages.
MaxAmount == 3

\* what the user types: an amount from 0 to MaxAmount, or a longer one
AmountForms ==
    { [amount |-> IntToText(n), label |-> <<"a">>, description |-> <<"p">>] :
          n \in 0..MaxAmount }
      \cup { [amount |-> <<"1", "2">>, label |-> <<"a">>, description |-> <<"p">>] }

InitAmounts == InitFrom(SelectServers, MaxSelectGoals, EmptyDict, AccountOk)

NextAmounts ==
    \/ \E form \in AmountForms : user_types(form)
    \/ \E i \in 0..(MaxShown - 1) : click_radio(i)
    \/ fetch
    \/ send_goal

SpecAmounts == InitAmounts /\ [][NextAmounts]_vars

-----------------------------------------------------------------------------
(* Vocabulary of the properties *)

\* the checked radio button designates a cached goal
Selected == checked >= 0 /\ checked < Len(goals)

\* an HTTP answer with a status in 200..299
Ok2xx(st) == st >= 200 /\ st <= 299

\* an HTTP answer with a status outside 200..299
Non2xx(st) == st \in Statuses /\ ~Ok2xx(st)

\* the positions of the requests of kind k among rq
Of(rq, k) == {i \in 1..Len(rq) : rq[i].kind = k}

\* the handler that just ran ended with self.fetch_goals()
Refreshed(name, rq) ==
    /\ rq # <<>>
    /\ rq[Len(rq)].kind = "list"
    /\ ~(name = "deleteAll" /\ Len(rq) = 1)

\* payload pl is the soft delete of the goal g
IsSoftDeleteOf(pl, g) ==
    /\ pl.id = g.id
    /\ pl.status = 1
    /\ pl.deletedAt # 0

\* the goal with this id is soft-deleted on the service
DeletedOnServer(srv, id) ==
    \E i \in 1..Len(srv) : srv[i].id = id /\ srv[i].status = 1

\* the text is an optional sign and one or more decimal digits, blanks around
\* it being allowed: what Python's int() accepts among the texts of the model
WholeNumber(t) ==
    LET s == strip(t)
        body == IF s # <<>> /\ s[1] \in {"+", "-"} THEN Tail(s) ELSE s
    IN  /\ body # <<>>
        /\ \A i \in 1..Len(body) :
              body[i] \in {"0", "1", "2", "3", "4", "5", "6", "7", "8", "9"}

NoSelectionModal == Modal("warning", "No selection", "Select a goal first", 0)

InputErrorModal == Modal("warning", "Input Error", "Enter whole dollars", 0)

-----------------------------------------------------------------------------
(* C1: in every reachable state, whatever handlers ran and however long the *)
(* list answered by the service was, self.goals holds at most 3 goals.      *)
C1_RegistryAtMostThree == Len(goals) <= MaxShown

\* a refresh answered with more than 3 goals filled the registry with 3
C1_Witness ==
    /\ op \in {"fetch", "create", "sendGroup"}
    /\ Refreshed(op, reqs)
    /\ Ok2xx(reqs[Len(reqs)].status)
    /\ Len(ListResponse(server)) > MaxShown
    /\ Len(goals) = MaxShown

(* C2, as claimed: the checked radio index is unset or designates a cached  *)
(* goal in every reachable state, so no handler reads a registry slot that  *)
(* does not exist.                                                          *)
C2_CursorInRegistry ==
    /\ checked = -1 \/ Selected
    /\ raised # "IndexError"

(* C3: a reset of the selected goal whose soft-delete request is answered   *)
(* with a non-2xx status issues no create request (the soft delete is its   *)
(* only request), opens a critical message box with that status, and leaves *)
(* the service and the registry as they were: a registry that showed the    *)
(* first 3 listed goals is what a following refresh yields again.           *)
C3_ResetDeleteRefused ==
    [][ (op' = "reset" /\ Selected /\ reqs' # <<>> /\ Non2xx(reqs'[1].status))
        => /\ Len(reqs') = 1
           /\ reqs'[1].kind = "update"
           /\ Of(reqs', "create") = {}
           /\ Len(modals') = 1
           /\ modals'[1].level = "critical"
           /\ modals'[1].code = reqs'[1].status
           /\ server' = server
           /\ goals' = goals
           /\ (goals = Take(ListResponse(server), MaxShown)
                 => Take(ListResponse(server'), MaxShown) = goals) ]_vars

\* a reset of a selected goal was refused at its soft-delete step
C3_Witness ==
    /\ op = "reset"
    /\ Selected
    /\ Len(reqs) = 1
    /\ Non2xx(reqs[1].status)
    /\ modals # <<>>
    /\ \E i \in 1..Len(server) :
          server[i].id = goals[checked + 1].id /\ server[i].status = 0

(* C4, as claimed: a reset of the selected goal whose soft delete succeeded *)
(* and whose create request failed (non-2xx answer or transport exception)  *)
(* issues no further request, surfaces the failure in a message box, and    *)
(* leaves the goal soft-deleted on the service.                             *)
C4_ResetCreateFailed ==
    [][ (op' = "reset" /\ Selected /\ Len(reqs') >= 2
            /\ Ok2xx(reqs'[1].status) /\ ~Ok2xx(reqs'[2].status))
        => /\ Len(reqs') = 2
           /\ modals' # <<>>
           /\ DeletedOnServer(server', goals[checked + 1].id) ]_vars

(* C5: a reset of the selected goal whose soft delete succeeded issues      *)
(* exactly one create request, right after the soft delete, with the label, *)
(* description and goalAmount of the cached record of the selected goal     *)
(* (not of the input fields) and with neither id nor currentAmount; the     *)
(* goal the service then creates has currentAmount 0.                       *)
C5_ResetRecreates ==
    [][ (op' = "reset" /\ Selected /\ reqs' # <<>> /\ Ok2xx(reqs'[1].status))
        => LET g == goals[checked + 1]
           IN  /\ Of(reqs', "create") = {2}
               /\ reqs'[1].kind = "update"
               /\ IsSoftDeleteOf(reqs'[1].payload, g)
               /\ reqs'[2].payload.label = g.label
               /\ reqs'[2].payload.description = g.description
               /\ reqs'[2].payload.goalAmount = g.goalAmount
               /\ DOMAIN reqs'[2].payload =
                    {"chatRoomId", "type", "goalAmount", "label", "description"}
               /\ (Ok2xx(reqs'[2].status)
                     => /\ server'[Len(server')].currentAmount = 0
                        /\ server'[Len(server')].label = g.label
                        /\ Len(server') = Len(server) + 1) ]_vars

\* a reset recreated a goal whose cached label differs from the input field
C5_Witness ==
    /\ op = "reset"
    /\ Len(reqs) >= 2
    /\ Ok2xx(reqs[1].status)
    /\ Ok2xx(reqs[2].status)
    /\ reqs[2].kind = "create"
    /\ reqs[2].payload.label # strip(label_in)
    /\ reqs[1].payload.currentAmount # 0

(* C6: an update of the selected goal (the amount field holding an integer) *)
(* sends one full-record update whose label and description are the input   *)
(* fields' texts (stripped of surrounding blanks), whose goalAmount is the  *)
(* typed amount x 1000, and whose id, accountId, currentAmount, status,     *)
(* type, version and deletedAt are those of the cached record.              *)
C6_UpdateFrame ==
    [][ (op' = "update" /\ Selected /\ WholeNumber(amount_in))
        => LET g == goals[checked + 1]
               pl == reqs'[1].payload
           IN  /\ Of(reqs', "update") = {1}
               /\ Of(reqs', "create") = {}
               /\ pl.label = strip(label_in)
               /\ pl.description = strip(desc_in)
               /\ pl.goalAmount = ParseInt(amount_in).val * Milli
               /\ \A f \in {"id", "accountId", "currentAmount", "status", "type",
                            "version", "deletedAt"} : pl[f] = g[f]
               /\ DOMAIN pl = DOMAIN g ]_vars

\* an update was sent for a goal whose cached label and progress differ from
\* what the input fields hold
C6_Witness ==
    /\ op = "update"
    /\ reqs # <<>>
    /\ reqs[1].kind = "update"
    /\ reqs[1].payload.currentAmount # 0
    /\ Ok2xx(reqs[1].status)
    /\ \E i \in 1..Len(server) :
          /\ server[i].id = reqs[1].payload.id
          /\ server[i].label = <<"n">>
          /\ server[i].goalAmount = 7 * Milli

(* C7: when the amount field does not hold an integer, create, update and   *)
(* save-preset make no request and leave the service, the registry, the     *)
(* preset table and the config file unchanged; create and save-preset, and  *)
(* update on a selected goal, report it with the "Input Error" box.         *)
C7_BadAmountAborts ==
    [][ (~WholeNumber(amount_in) /\ op' \in {"create", "update", "save"})
        => /\ reqs' = <<>>
           /\ server' = server
           /\ goals' = goals
           /\ PRESETS' = PRESETS
           /\ config' = config
           /\ (op' \in {"create", "save"} \/ Selected
                 => modals' = <<InputErrorModal>>) ]_vars

\* an update on a selected goal was refused because of the amount field
C7_Witness ==
    /\ op = "update"
    /\ Selected
    /\ ~WholeNumber(amount_in)
    /\ amount_in # <<>>
    /\ modals = <<InputErrorModal>>
    /\ reqs = <<>>

(* C8: with no radio button checked, update, deleteSelected and reset open  *)
(* the "No selection" box and return before any request: the service, the   *)
(* registry and the cursor are unchanged.                                   *)
C8_NoSelectionAborts ==
    [][ (checked = -1 /\ op' \in {"update", "deleteSelected", "reset"})
        => /\ reqs' = <<>>
           /\ modals' = <<NoSelectionModal>>
           /\ raised' = "none"
           /\ server' = server
           /\ goals' = goals
           /\ checked' = checked ]_vars

\* reset was pressed with no goal selected while the registry showed goals
C8_Witness ==
    /\ op = "reset"
    /\ checked = -1
    /\ goals # <<>>
    /\ modals = <<NoSelectionModal>>

(* C9: a refresh whose list request fails (transport exception or non-2xx   *)
(* answer) leaves the registry empty and opens the "Fetch Error" box; a     *)
(* refresh that succeeds leaves the registry equal to the first 3 goals of  *)
(* the answer, in the order of the answer.                                  *)
C9_RefreshReplaces ==
    [][ Refreshed(op', reqs')
        => IF Ok2xx(reqs'[Len(reqs')].status)
           THEN LET answer == ListResponse(server')
                IN  /\ Len(goals') = IF Len(answer) < 3 THEN Len(answer) ELSE 3
                    /\ \A i \in 1..Len(goals') : goals'[i] = answer[i]
           ELSE /\ goals' = <<>>
                /\ modals' # <<>>
                /\ modals'[Len(modals')].title = "Fetch Error" ]_vars

\* a refresh failed after a goal had been selected, while the room has goals
C9_Witness ==
    /\ op = "fetch"
    /\ ~Ok2xx(reqs[1].status)
    /\ checked >= 0
    /\ goals = <<>>
    /\ ListResponse(server) # <<>>

(* C10, as claimed: deleteAll whose list request succeeded sends exactly    *)
(* one soft-delete update per item of the untruncated list, in list order,  *)
(* going on to the next item whatever the outcome of the previous request,  *)
(* and then refreshes; when every request succeeded the registry is empty.  *)
C10_DeleteAllSweeps ==
    [][ (op' = "deleteAll" /\ reqs' # <<>> /\ Ok2xx(reqs'[1].status))
        => LET items == ListResponse(server)
           IN  /\ Len(reqs') = Len(items) + 2
               /\ \A i \in 1..Len(items) :
                     /\ reqs'[i + 1].kind = "update"
                     /\ IsSoftDeleteOf(reqs'[i + 1].payload, items[i])
               /\ reqs'[Len(reqs')].kind = "list"
               /\ ((\A i \in 1..Len(reqs') : Ok2xx(reqs'[i].status))
                     => goals' = <<>>) ]_vars

-----------------------------------------------------------------------------
(* Presets *)

\* save_preset stored a payload; its message box names the group and the slot
Saved == op = "save" /\ modals # <<>> /\ modals[1].title = "Saved"

\* the ints and strs that name the group or slot whose key is the text t
KeyForms(t) == {k \in PresetKeys : str(k) = t}

\* the texts of the three input fields
StagedTexts == [amount |-> amount_in, label |-> label_in, description |-> desc_in]

\* the staged texts without surrounding blanks, the amount in plain decimal
StagedTextsNormalized ==
    [amount |-> IntToText(ParseInt(amount_in).val), label |-> strip(label_in),
     description |-> strip(desc_in)]

\* edit_preset(g, s) finds a payload in presets and writes texts into the fields
EditPutsBack(presets, g, s, texts) ==
    LET pl == get_preset(presets, g, s)
    IN  IsDict(pl) /\ preset_texts(pl) = texts

\* C11 as the specification states it: after save(group, slot), edit(group,
\* slot) puts back exactly the staged amount, label and description, whether
\* the keys are given as numbers or as strings, from the table in memory and
\* from the table loaded and normalized from the saved config file.
C11_RoundTripExact ==
    [][ Saved' =>
          \A g \in KeyForms(modals'[1].text[1]), s \in KeyForms(modals'[1].text[2]) :
              /\ EditPutsBack(PRESETS', g, s, StagedTexts)
              /\ EditPutsBack(normalize_presets(config'.PRESETS), g, s, StagedTexts) ]_vars

\* C11 amended: after save(group, slot), edit(group, slot) puts back the
\* staged label and description without their surrounding blanks and the
\* staged amount as the plain decimal of its integer value, whether the keys
\* are given as numbers or as strings, from the table in memory and from the
\* table loaded and normalized from the saved config file.
C11_RoundTripNormalized ==
    [][ Saved' =>
          \A g \in KeyForms(modals'[1].text[1]), s \in KeyForms(modals'[1].text[2]) :
              /\ EditPutsBack(PRESETS', g, s, StagedTextsNormalized)
              /\ EditPutsBack(normalize_presets(config'.PRESETS), g, s, StagedTextsNormalized) ]_vars

\* a preset with blanks around its label was saved into a group that already
\* held another slot, and edit has put it back
C11_Witness ==
    /\ op = "edit"
    /\ modals = <<>>
    /\ label_in = <<"n">>
    /\ \E i \in 1..Len(PRESETS) : Len(PRESETS[i].v) > 1
    /\ config.PRESETS = PRESETS

\* send_presets found presets in the group and entered its loop
SentGroup ==
    op = "sendGroup" /\ ~(modals # <<>> /\ modals[1].title = "Missing")

\* the message boxes md report exactly the slots of slots whose request in rq
\* was not answered 2xx
ReportsFailed(md, slots, rq) ==
    LET failed == SelectSeq([i \in 1..Len(slots) |-> [k |-> slots[i].k,
                                                     st |-> rq[i].status]],
                            LAMBDA e : ~Ok2xx(e.st))
    IN  IF failed = <<>> THEN \A i \in 1..Len(md) : md[i].title # "Some Failed"
        ELSE \E i \in 1..Len(md) :
                /\ md[i].title = "Some Failed"
                /\ md[i].text = [j \in 1..Len(failed) |-> <<failed[j].k, failed[j].st>>]

(* C12, as claimed: sendGroup on a group that holds presets issues exactly  *)
(* one create request per stored slot, each carrying that slot's payload,   *)
(* reports the slots whose request failed, and after the last request       *)
(* refreshes the registry, whatever the outcomes of the requests were.      *)
C12_SendGroupSweeps ==
    [][ SentGroup' =>
          \E g \in 1..Len(PRESETS) :
              LET slots == PRESETS[g].v
              IN  /\ slots # <<>>
                  /\ Len(reqs') = Len(slots) + 1
                  /\ \A i \in 1..Len(slots) :
                        /\ reqs'[i].kind = "create"
                        /\ reqs'[i].payload = slots[i].v
                  /\ reqs'[Len(reqs')].kind = "list"
                  /\ ReportsFailed(modals', slots, reqs') ]_vars

\* the slot with the key texts gk, sk holds no payload in presets
EmptySlot(presets, gk, sk) ==
    \A i \in 1..Len(presets) :
        presets[i].k = gk => \A j \in 1..Len(presets[i].v) : presets[i].v[j].k # sk

\* the content of the fields is what some stored slot of presets holds
HoldsStoredSlot(presets) ==
    \E i \in 1..Len(presets) : \E j \in 1..Len(presets[i].v) :
        LET pl == presets[i].v[j].v
        IN  /\ label_in = pl.label
            /\ desc_in = pl.description
            /\ WholeNumber(amount_in)
            /\ ParseInt(amount_in).val * Milli = pl.goalAmount

(* C13: the preset table is changed by save only.  edit and sendGroup leave  *)
(* every slot of the table and the config file as they were; edit on an      *)
(* empty slot warns and leaves the staging buffer unchanged, edit on a       *)
(* stored slot loads one of the stored payloads.                             *)
C13_PresetsFrame ==
    [][ /\ PRESETS' # PRESETS => Saved'
        /\ op' \in {"edit", "sendGroup"} => (PRESETS' = PRESETS /\ config' = config)
        /\ op' = "edit" =>
              IF modals' # <<>>
              THEN /\ EmptySlot(PRESETS, modals'[1].text[1], modals'[1].text[2])
                   /\ staging' = staging
              ELSE HoldsStoredSlot(PRESETS)' ]_vars

\* edit was pressed on an empty slot while the fields and the table held
\* something
C13_Witness ==
    /\ op = "edit"
    /\ modals # <<>>
    /\ label_in # <<>>
    /\ PRESETS # <<>>

\* the config file holds the login data of this run and the preset table
Persisted(cfg, presets) ==
    /\ cfg.AUTH_TOKEN = AUTH_TOKEN
    /\ cfg.CHATROOM_ID = CHAT_ID
    /\ cfg.PRESETS = presets

(* C17, as claimed: after every successful save, and at the moment the      *)
(* process exits (the step that starts the program again leaves from that   *)
(* moment), the presets in the config file equal the preset table in        *)
(* memory, the file's authToken and chatRoomId being unchanged.             *)
C17_PersistedOnSaveAndExit ==
    [][ /\ Saved' => Persisted(config', PRESETS')
        /\ op' = "init" => Persisted(config, PRESETS) ]_vars

-----------------------------------------------------------------------------
(* Selection *)

\* the text t is the plain decimal of the whole dollars in amount thousandths
WholeDollarsOf(t, amount) ==
    /\ WholeNumber(t)
    /\ t = strip(t)
    /\ ParseInt(t).val * Milli <= amount
    /\ amount < (ParseInt(t).val + 1) * Milli
    /\ (Len(t) > 1 => t[1] # "0")

(* C14: after select on a cached goal the cursor designates that goal and    *)
(* the staging buffer holds the goal's label, its description and its        *)
(* goalAmount divided by 1000 with the remainder dropped; the registry is    *)
(* not changed.                                                              *)
C14_SelectLoads ==
    [][ op' = "select" =>
          /\ Selected'
          /\ goals' = goals
          /\ label_in' = goals[checked' + 1].label
          /\ desc_in' = goals[checked' + 1].description
          /\ WholeDollarsOf(amount_in', goals[checked' + 1].goalAmount) ]_vars

\* a goal whose target is not a whole number of dollars was selected
C14_Witness ==
    /\ op = "select"
    /\ Selected
    /\ goals[checked + 1].goalAmount = 12500
    /\ amount_in = <<"1", "2">>

-----------------------------------------------------------------------------
(* Failures and their reports *)

\* the request got no 2xx answer: another status, or no answer at all
Failed(rq) == ~Ok2xx(rq.status)

(* C16, as claimed: whenever a request made by a handler other than the     *)
(* loop of deleteAll fails, by a non-2xx answer or by a transport           *)
(* exception, the handler shows a warning or error box before it ends.      *)
C16_NoSilentFailure ==
    [][ (/\ op' \in {"create", "update", "deleteSelected", "reset", "sendGroup",
                      "fetch", "updateTitle"}
         /\ \E i \in 1..Len(reqs') : Failed(reqs'[i]))
        => \E i \in 1..Len(modals') : modals'[i].level \in {"warning", "critical"} ]_vars

(* C18: deleteSelected on a selected goal sends one update request, the      *)
(* goal's cached record with status 1 and a non-zero deletedAt, every other  *)
(* field as cached.  Answered 2xx, the handler refreshes the registry;       *)
(* answered with another status, it reports the status in an error box,      *)
(* sends nothing more and leaves registry, cursor and service unchanged.     *)
C18_DeleteSelected ==
    [][ (op' = "deleteSelected" /\ Selected) =>
          LET g == goals[checked + 1]
              pl == reqs'[1].payload
          IN  /\ reqs' # <<>>
              /\ Of(reqs', "update") = {1}
              /\ IsSoftDeleteOf(pl, g)
              /\ pl.accountId = g.accountId
              /\ pl.currentAmount = g.currentAmount
              /\ pl.goalAmount = g.goalAmount
              /\ pl.label = g.label
              /\ pl.description = g.description
              /\ pl.type = g.type
              /\ pl.version = g.version
              /\ Ok2xx(reqs'[1].status) =>
                    /\ Len(reqs') = 2
                    /\ Refreshed("deleteSelected", reqs')
                    /\ DeletedOnServer(server', g.id)
              /\ Non2xx(reqs'[1].status) =>
                    /\ Len(reqs') = 1
                    /\ Len(modals') = 1
                    /\ modals'[1].level = "critical"
                    /\ modals'[1].code = reqs'[1].status
                    /\ goals' = goals
                    /\ checked' = checked
                    /\ server' = server ]_vars

\* a delete of the selected goal was refused by the service
C18_Witness ==
    /\ op = "deleteSelected"
    /\ Len(reqs) = 1
    /\ Non2xx(reqs[1].status)
    /\ Selected
    /\ modals # <<>>

(* C19: create with a whole number staged sends one creation request with    *)
(* the staged amount times 1000, the staged label and description without    *)
(* surrounding blanks, the chat room id and type 0.  Answered 2xx, the       *)
(* handler refreshes the registry; answered with another status, it shows    *)
(* that status in an error box and leaves registry, cursor and service       *)
(* unchanged.                                                                *)
C19_Create ==
    [][ (op' = "create" /\ WholeNumber(amount_in)) =>
          LET pl == reqs'[1].payload
          IN  /\ reqs' # <<>>
              /\ Of(reqs', "create") = {1}
              /\ pl = [chatRoomId |-> CHAT_ID, type |-> 0,
                       goalAmount |-> ParseInt(amount_in).val * Milli,
                       label |-> strip(label_in), description |-> strip(desc_in)]
              /\ Ok2xx(reqs'[1].status) =>
                    /\ Len(reqs') = 2
                    /\ Refreshed("create", reqs')
              /\ Non2xx(reqs'[1].status) =>
                    /\ Len(reqs') = 1
                    /\ Len(modals') = 1
                    /\ modals'[1].level = "critical"
                    /\ modals'[1].code = reqs'[1].status
                    /\ goals' = goals
                    /\ checked' = checked
                    /\ server' = server ]_vars

\* a create was refused by the service while a goal was selected
C19_Witness ==
    /\ op = "create"
    /\ Len(reqs) = 1
    /\ Non2xx(reqs[1].status)
    /\ Selected
    /\ modals # <<>>

-----------------------------------------------------------------------------
(* Retries *)

\* the handlers that send requests
Handlers ==
    {"create", "update", "deleteSelected", "deleteAll", "reset", "sendGroup",
     "fetch", "updateTitle"}

\* the requests of kind k among rq, in order
Only(rq, k) == SelectSeq(rq, LAMBDA r : r.kind = k)

-----------------------------------------------------------------------------
(* Amounts *)

RECURSIVE AfterLastDollar(_)
\* the text that follows the last "$ " of t
AfterLastDollar(t) ==
    IF \E i \in 1..Len(t) : t[i] = "$"
    THEN AfterLastDollar(SubSeq(t, (CHOOSE i \in 1..Len(t) : t[i] = "$") + 2, Len(t)))
    ELSE t

\* the goal that a create answered 2xx has just added to the room
Created(srv) == srv[Len(srv)]

(* C21: a create with a staged whole amount n >= 0 sends goalAmount = n *    *)
(* 1000; when the room returns the new goal in the refresh, the registry     *)
(* shows its target as exactly n, and selecting a goal whose goalAmount is   *)
(* n * 1000 stages exactly n.  For every goal of the registry, a multiple    *)
(* of 1000 or not, the shown target and the amount staged by a select are    *)
(* goalAmount divided by 1000 with the remainder dropped.                    *)
C21_AmountRoundTrip ==
    [][ /\ (op' = "create" /\ WholeNumber(amount_in) /\ ParseInt(amount_in).val >= 0) =>
              LET n == ParseInt(amount_in).val
              IN  /\ reqs'[1].payload.goalAmount = n * Milli
                  /\ Ok2xx(reqs'[1].status) =>
                        /\ Created(server').goalAmount = n * Milli
                        /\ \A i \in 1..Len(goals') :
                              goals'[i].id = Created(server').id =>
                                  /\ goals'[i].goalAmount = n * Milli
                                  /\ AfterLastDollar(labels_amt(goals')[i]) = IntToText(n)
        /\ \A i \in 1..Len(goals') :
              WholeDollarsOf(AfterLastDollar(labels_amt(goals')[i]), goals'[i].goalAmount)
        /\ op' = "select" =>
              /\ WholeDollarsOf(amount_in', goals[checked' + 1].goalAmount)
              /\ goals[checked' + 1].goalAmount % Milli = 0 =>
                    ParseInt(amount_in').val * Milli = goals[checked' + 1].goalAmount ]_vars

\* a goal created with the largest staged amount was fetched and selected, and
\* a goal whose target is not a whole number of dollars is shown with it
C21_Witness ==
    /\ op = "select"
    /\ Selected
    /\ goals[checked + 1].goalAmount = MaxAmount * Milli
    /\ amount_in = IntToText(MaxAmount)
    /\ \E i \in 1..Len(goals) : goals[i].goalAmount = 999

-----------------------------------------------------------------------------
(* Staging buffer *)

(* C22: the amount, label and description fields are written by the user's   *)
(* typing, by select and by edit-preset only: refresh, create, update,       *)
(* deleteSelected, deleteAll, reset, save-preset and sendGroup leave the     *)
(* three fields as they were, whatever their requests were answered.         *)
C22_StagingOwned ==
    [][ /\ op' \in {"fetch", "create", "update", "deleteSelected", "deleteAll",
                     "reset", "save", "sendGroup"} => staging' = staging
        /\ staging' # staging => op' \in {"type", "select", "edit"} ]_vars

\* deleteAll emptied the registry while the fields still held a goal's texts
C22_Witness ==
    /\ op = "deleteAll"
    /\ Refreshed("deleteAll", reqs)
    /\ goals = <<>>
    /\ label_in # <<>>
    /\ amount_in # <<>>

-----------------------------------------------------------------------------
(* Stream title *)

(* C23: a title update whose title is empty once stripped sends no request   *)
(* and warns "Missing Title".  With a non-empty title and a known channel id *)
(* the first update request carries the minimal payload (channel id and      *)
(* title); a second one is sent exactly when the first did not get a 2xx     *)
(* answer, and it carries the rich payload.  No update request follows a 2xx *)
(* answer, which is reported as "Updated"; "Update Failed" is reported       *)
(* exactly when both attempts failed.                                        *)
C23_TitleFallback ==
    [][ op' = "updateTitle" =>
          LET new_title == strip(title_in)
              tts == Only(reqs', "title")
          IN  /\ new_title = <<>> =>
                    /\ reqs' = <<>>
                    /\ Len(modals') = 1
                    /\ modals'[1].title = "Missing Title"
                    /\ stream' = stream
              /\ (new_title # <<>> /\ CHANNEL_ID # NoId) =>
                    /\ Len(tts) \in {1, 2}
                    /\ tts[1].payload = [id |-> CHANNEL_ID, streamTitle |-> new_title]
                    /\ Len(tts) = 2 <=> Failed(tts[1])
                    /\ Len(tts) = 2 =>
                          /\ {"id", "chatRoomId", "accountId", "streamTitle"}
                                 \subseteq DOMAIN tts[2].payload
                          /\ tts[2].payload.id = CHANNEL_ID
                          /\ tts[2].payload.accountId = ACCOUNT_ID
                          /\ tts[2].payload.streamTitle = new_title
                    /\ \A i \in 1..Len(tts) : Ok2xx(tts[i].status) => i = Len(tts)
                    /\ \A i \in 1..Len(reqs') :
                          reqs'[i].kind \in {"title", "channel"}
                    /\ Len(modals') = 1
                    /\ modals'[1].title \in {"Updated", "Update Failed"}
                    /\ modals'[1].title = "Updated" <=> Ok2xx(tts[Len(tts)].status)
                    /\ modals'[1].title = "Update Failed" <=>
                          (Len(tts) = 2 /\ Failed(tts[1]) /\ Failed(tts[2]))
                    /\ modals'[1].title = "Updated" => stream'.title = new_title
                    /\ modals'[1].title = "Update Failed" => stream' = stream ]_vars

\* the minimal payload was refused and the rich one accepted
C23_Witness ==
    /\ op = "updateTitle"
    /\ Len(Only(reqs, "title")) = 2
    /\ Failed(Only(reqs, "title")[1])
    /\ Ok2xx(Only(reqs, "title")[2].status)
    /\ modals # <<>>
    /\ modals[1].title = "Updated"

-----------------------------------------------------------------------------
(* Cursor across refreshes *)

(* C24, as claimed: after a handler that ended with a refresh the checked    *)
(* radio index is unset or designates, in the refreshed registry, the goal   *)
(* with the id it designated before the handler.                             *)
C24_CursorSameGoal ==
    [][ (Refreshed(op', reqs') /\ checked' # -1)
        => /\ Selected
           /\ checked' < Len(goals')
           /\ goals'[checked' + 1].id = goals[checked + 1].id ]_vars

-----------------------------------------------------------------------------
(* Registry coherence *)

\* the handlers of the goal buttons and of "Send Group"
GoalOps == {"create", "update", "deleteSelected", "deleteAll", "reset", "sendGroup"}

\* one of the list requests of the handler was not answered with a 2xx status
ListRefused(rq) == \E i \in Of(rq, "list") : ~Ok2xx(rq[i].status)

(* C25, as claimed: when a goal handler returns after one of its requests    *)
(* changed the goals of the service, no exception having left it and no list *)
(* request of the handler having been refused, the registry holds the first  *)
(* 3 active goals the service now lists, and none of the goals it shows is   *)
(* soft-deleted on the service.                                              *)
C25_RegistryCoherent ==
    [][ (op' \in GoalOps /\ server' # server /\ raised' = "none"
            /\ ~ListRefused(reqs'))
        => /\ goals' = SubSeq(ListResponse(server'), 1,
                              IF Len(ListResponse(server')) < MaxShown
                              THEN Len(ListResponse(server')) ELSE MaxShown)
           /\ \A i \in 1..Len(goals') : ~DeletedOnServer(server', goals'[i].id) ]_vars

-----------------------------------------------------------------------------
(* Delete all, list refused *)

(* C26: a deleteAll whose list request fails, by a transport error or by a   *)
(* non-2xx answer, sends nothing else: no soft delete and no refresh.  One   *)
(* critical message box reports the error, no exception leaves the handler,  *)
(* and the registry, the checked radio button, the enabled radio buttons,    *)
(* the input fields and the goals of the service are as they were.           *)
C26_DeleteAllListRefused ==
    [][ (op' = "deleteAll" /\ Failed(reqs'[1]))
        => /\ Len(reqs') = 1
           /\ reqs'[1].kind = "list"
           /\ Of(reqs', "update") = {}
           /\ Len(modals') = 1
           /\ modals'[1].level = "critical"
           /\ raised' = "none"
           /\ goals' = goals
           /\ checked' = checked
           /\ radio_enabled' = radio_enabled
           /\ staging' = staging
           /\ server' = server ]_vars

\* the list request of a deleteAll failed while a goal was selected
C26_Witness ==
    /\ op = "deleteAll"
    /\ Len(reqs) = 1
    /\ Failed(reqs[1])
    /\ Selected
    /\ ListResponse(server) # <<>>
    /\ modals # <<>>
    /\ modals[1].level = "critical"

====
